---- MODULE Spec2Model ----
(***************************************************************************)
(* Model of license_agent/agent.py: the five tool functions of the license *)
(* agent (list_licenses, grant_license, revoke_license,                    *)
(* release_stale_licenses, list_subscriptions) and the outbound calls they *)
(* make.  One behaviour is one invocation of one tool by the agent         *)
(* runtime: the module keeps no state between invocations, so the calls    *)
(* are independent.  The remote service is seen through the requests the   *)
(* program sends it (calls) and the answers it gives, which are chosen     *)
(* nondeterministically.                                                   *)
(*                                                                         *)
(* Python values: None and the empty string are both falsy; a dictionary   *)
(* is a record; an f-string message is a record of the values it formats.  *)
(* Time is counted in whole days (timedelta(days=N) is N units).           *)
(***************************************************************************)
EXTENDS Integers, Sequences, FiniteSets, TLC

\* ---------------------------------------------------------------- bounds
MaxLen == 2
MaxDays == 1
MaxStats == 2

\* ---------------------------------------------------------------- values
None == "None"

Falsy(v) == v \in {None, ""}

UserIds == {"", "alice", "bob"}
ConfigPaths == {"", "projects/p/locations/global/licenseConfigs/c1"}

\* datetime.now(timezone.utc), and the days a last login can fall on.
NowTimes == {MaxDays + 1}
LoginDays == 0..(MaxDays + 1)

\* A last_login_time value of a license dictionary: absent (None), an
\* RFC 3339 timestamp, or text that is no date.  The dictionaries come from
\* to_dict of the SDK's UserLicense messages (line 113), which writes a set
\* timestamp in UTC with its zone and leaves an unset one out, so a parsed
\* login is always comparable with the timezone-aware threshold of line 258.
LoginStrings ==
    {[text |-> None, day |-> 0], [text |-> "garbage", day |-> 0]}
    \cup {[text |-> "timestamp", day |-> d] : d \in LoginDays}

NoLogin(s) == Falsy(s.text)

\* dateutil.parser.parse: the datetime of a timestamp, ValueError otherwise.
parse_datetime(s) ==
    IF s.text = "timestamp"
    THEN [ok |-> TRUE, value |-> s.day]
    ELSE [ok |-> FALSE, value |-> 0]

LicenseInfos ==
    [user_principal : UserIds, license_config : ConfigPaths,
     last_login_time : LoginStrings]

RECURSIVE SeqsUpTo(_, _)
SeqsUpTo(S, n) ==
    IF n = 0 THEN {<<>>}
    ELSE LET shorter == SeqsUpTo(S, n - 1)
         IN  shorter \cup {Append(s, x) : s \in {t \in shorter : Len(t) = n - 1}, x \in S}

LicenseLists == SeqsUpTo(LicenseInfos, MaxLen)

StaleDays == {-1, 0} \cup (1..MaxDays)

\* ---------------------------------------------------------------- subscriptions
\* Resource names of license configs, as the usage stats give them.
ConfigNameC1 == "projects/p/locations/global/licenseConfigs/c1"
ConfigNameC2 == "projects/p/locations/global/licenseConfigs/c2"
ConfigNames == {ConfigNameC1, ConfigNameC2}

\* str.split('/') of a resource name.
SplitSlash(name) ==
    CASE name = ConfigNameC1 ->
           <<"projects", "p", "locations", "global", "licenseConfigs", "c1">>
      [] name = ConfigNameC2 ->
           <<"projects", "p", "locations", "global", "licenseConfigs", "c2">>
      [] OTHER -> <<name>>

\* int(s) of a JSON int64 string: the number, or ValueError.
ParseInt(s) ==
    CASE s = "-1" -> [ok |-> TRUE, value |-> -1]
      [] s = "0" -> [ok |-> TRUE, value |-> 0]
      [] s = "1" -> [ok |-> TRUE, value |-> 1]
      [] s = "2" -> [ok |-> TRUE, value |-> 2]
      [] s = "5" -> [ok |-> TRUE, value |-> 5]
      [] s = "7" -> [ok |-> TRUE, value |-> 7]
      [] OTHER -> [ok |-> FALSE, value |-> 0]

\* dict.get(key, default), an absent key being None here.
Get(v, default) == IF v = None THEN default ELSE v

\* One element of data["licenseConfigUsageStats"].
UsageStats ==
    [licenseConfig : ConfigNames \cup {None},
     usedLicenseCount : {None, "1", "2", "many"}]

StatsLists == SeqsUpTo(UsageStats, MaxStats)

\* The body of a license config as the service stores it; the answer to a
\* GET of a config carries the name it was asked for, so an answer is never
\* the empty dictionary that line 317 would take for a failed fetch.
ConfigBodies ==
    {[licenseCount |-> "5", state |-> "ACTIVE",
      startDate |-> "2025-01-01", endDate |-> "2026-01-01"],
     [licenseCount |-> "7", state |-> "EXPIRED",
      startDate |-> "2024-01-01", endDate |-> "2025-01-01"],
     [licenseCount |-> None, state |-> None,
      startDate |-> None, endDate |-> None],
     [licenseCount |-> "unlimited", state |-> "ACTIVE",
      startDate |-> "2025-01-01", endDate |-> None]}

Details(name, body) ==
    [name |-> name, licenseCount |-> body.licenseCount, state |-> body.state,
     startDate |-> body.startDate, endDate |-> body.endDate]

NoDetails ==
    [name |-> None, licenseCount |-> None, state |-> None,
     startDate |-> None, endDate |-> None]

\* A GET sent through the authorized session, with the answer it got.  rec is
\* the position in the usage stats of the record that caused it (0 for the
\* usage-stats request itself).
Get_(url, ok, details, rec) ==
    [url |-> url, ok |-> ok, details |-> details, rec |-> rec]

UsageStatsUrl == "projects/p/locations/global/userStores/default_user_store/licenseConfigsUsageStats"

\* ---------------------------------------------------------------- results
Return(v) == [kind |-> "return", value |-> v]
Raise(e) == [kind |-> "raise", value |-> [exception |-> e]]
NoResult == [kind |-> "none", value |-> [none |-> TRUE]]

IsErrorDict(r) == r.kind = "return" /\ "error" \in DOMAIN r.value

\* An outbound request to the license service, with the answer it got.
\* rec is the position in all_licenses of the record that caused it (0 when
\* the tool was called directly).
Call(op, user, config, del, ok, rec) ==
    [op |-> op, user_principal |-> user, license_config |-> config,
     delete_unassigned_user_licenses |-> del, ok |-> ok, rec |-> rec]

VARIABLES
    pc,               \* position of the invoked tool
    tool,             \* the tool the agent runtime invoked
    calls,            \* outbound requests sent so far, in order
    result,           \* what the tool returned or raised
    args,             \* grant_license, revoke_license: the arguments
    now,              \* release_stale_licenses: datetime.now(timezone.utc)
    stale_after_days, \* release_stale_licenses: argument
    stale_threshold,  \* release_stale_licenses: now - timedelta(days)
    all_licenses,     \* release_stale_licenses: the fetched list
    idx,              \* release_stale_licenses: next record of the for loop
    revoked_users,    \* release_stale_licenses: local list
    errors,           \* release_stale_licenses: local list
    gets,             \* list_subscriptions: GETs sent through the session
    usage_stats,      \* list_subscriptions: data["licenseConfigUsageStats"]
    sidx,             \* list_subscriptions: next record of the for loop
    subscriptions_data \* list_subscriptions: local list

vars == <<pc, tool, calls, result, args, now, stale_after_days, stale_threshold,
          all_licenses, idx, revoked_users, errors,
          gets, usage_stats, sidx, subscriptions_data>>

rslVars == <<now, stale_after_days, stale_threshold, all_licenses, idx,
             revoked_users, errors>>

lsVars == <<gets, usage_stats, sidx, subscriptions_data>>

Init ==
    /\ pc = "idle"
    /\ tool = "none"
    /\ calls = <<>>
    /\ result = NoResult
    /\ args = [user_id |-> "", license_config_path |-> None]
    /\ now = 0
    /\ stale_after_days = 0
    /\ stale_threshold = 0
    /\ all_licenses = <<>>
    /\ idx = 1
    /\ revoked_users = <<>>
    /\ errors = <<>>
    /\ gets = <<>>
    /\ usage_stats = <<>>
    /\ sidx = 1
    /\ subscriptions_data = <<>>

\* ---------------------------------------------------------------- tool bodies
\* Each body is a function of its arguments and of the service's answer (ok);
\* it yields the requests it sends and how it ends.

\* list_licenses: one list_user_licenses request, no handler around it.
list_licenses(answer, ok) ==
    [sent |-> <<Call("list_user_licenses", "", "", FALSE, ok, 0)>>,
     out |-> IF ok THEN Return([licenses |-> answer])
             ELSE Raise("list_user_licenses failed")]

\* grant_license: refuses a falsy config path, else one batch update that
\* carries the user and the config and keeps unassigned licenses.
grant_license(user_id, license_config_path, ok, rec) ==
    IF Falsy(license_config_path)
    THEN [sent |-> <<>>,
          out |-> Return([error |-> "A license_config_path is required."])]
    ELSE [sent |-> <<Call("batch_update_user_licenses", user_id,
                          license_config_path, FALSE, ok, rec)>>,
          out |-> IF ok THEN Return([response |-> "BatchUpdateUserLicensesResponse"])
                  ELSE Raise("batch_update_user_licenses failed")]

\* revoke_license without the check of line 168.
revoke_license_unchecked(user_id, license_config_path, ok, rec) ==
    [sent |-> <<Call("batch_update_user_licenses", user_id, "", TRUE, ok, rec)>>,
     out |-> IF ok THEN Return([response |-> "BatchUpdateUserLicensesResponse"])
             ELSE Raise("batch_update_user_licenses failed")]

\* revoke_license sending the batch update a second time when it failed.
revoke_license_retry(user_id, license_config_path, ok, rec) ==
    IF Falsy(license_config_path)
    THEN [sent |-> <<>>,
          out |-> Return([error |-> "A license_config_path is required."])]
    ELSE [sent |-> IF ok
                   THEN <<Call("batch_update_user_licenses", user_id, "", TRUE, TRUE, rec)>>
                   ELSE <<Call("batch_update_user_licenses", user_id, "", TRUE, FALSE, rec),
                          Call("batch_update_user_licenses", user_id, "", TRUE, TRUE, rec)>>,
          out |-> Return([response |-> "BatchUpdateUserLicensesResponse"])]

\* revoke_license: refuses a falsy config path, else one batch update that
\* carries the user without a config and deletes unassigned licenses.
revoke_license(user_id, license_config_path, ok, rec) ==
    IF Falsy(license_config_path)
    THEN [sent |-> <<>>,
          out |-> Return([error |-> "A license_config_path is required."])]
    ELSE [sent |-> <<Call("batch_update_user_licenses", user_id,
                          "", TRUE, ok, rec)>>,
          out |-> IF ok THEN Return([response |-> "BatchUpdateUserLicensesResponse"])
                  ELSE Raise("batch_update_user_licenses failed")]

\* ---------------------------------------------------------------- direct calls
ListLicenses ==
    /\ pc = "idle"
    /\ \E answer \in LicenseLists, ok \in BOOLEAN :
         LET r == list_licenses(answer, ok)
         IN  /\ calls' = calls \o r.sent
             /\ result' = r.out
    /\ tool' = "list_licenses"
    /\ pc' = "done"
    /\ UNCHANGED <<args, rslVars, lsVars>>

GrantLicense ==
    /\ pc = "idle"
    /\ \E user_id \in UserIds, path \in ConfigPaths \cup {None}, ok \in BOOLEAN :
         LET r == grant_license(user_id, path, ok, 0)
         IN  /\ args' = [user_id |-> user_id, license_config_path |-> path]
             /\ calls' = calls \o r.sent
             /\ result' = r.out
    /\ tool' = "grant_license"
    /\ pc' = "done"
    /\ UNCHANGED <<rslVars, lsVars>>

RevokeLicense ==
    /\ pc = "idle"
    /\ \E user_id \in UserIds, path \in ConfigPaths \cup {None}, ok \in BOOLEAN :
         LET r == revoke_license(user_id, path, ok, 0)
         IN  /\ args' = [user_id |-> user_id, license_config_path |-> path]
             /\ calls' = calls \o r.sent
             /\ result' = r.out
    /\ tool' = "revoke_license"
    /\ pc' = "done"
    /\ UNCHANGED <<rslVars, lsVars>>

\* ---------------------------------------------------------------- release_stale_licenses
\* Lines 214-217: the threshold and the two empty lists.
StaleThreshold(t, days) == t - days

RslCall ==
    /\ pc = "idle"
    /\ \E days \in StaleDays, t \in NowTimes :
         /\ stale_after_days' = days
         /\ now' = t
         /\ stale_threshold' = StaleThreshold(t, days)
    /\ revoked_users' = <<>>
    /\ errors' = <<>>
    /\ tool' = "release_stale_licenses"
    /\ pc' = "rsl_fetch"
    /\ UNCHANGED <<calls, result, args, all_licenses, idx, lsVars>>

\* The fetch without its try/except: the exception leaves the tool.
FetchUncaught == Raise("list_user_licenses failed")

\* Lines 221-222: the handler of a failed fetch.
FetchFailed == Return([error |-> "Failed to retrieve license list"])

\* Lines 219-222: the one fetch, under try/except.
RslFetch ==
    /\ pc = "rsl_fetch"
    /\ \E answer \in LicenseLists, ok \in BOOLEAN :
         LET r == list_licenses(answer, ok)
         IN  /\ calls' = calls \o r.sent
             /\ IF r.out.kind = "raise"
                THEN /\ result' = FetchFailed
                     /\ pc' = "done"
                     /\ UNCHANGED all_licenses
                ELSE /\ all_licenses' = r.out.value.licenses
                     /\ pc' = "rsl_loop"
                     /\ UNCHANGED result
    /\ idx' = 1
    /\ UNCHANGED <<tool, args, now, stale_after_days, stale_threshold, revoked_users, errors, lsVars>>

ErrorEntry(kind, user) == [kind |-> kind, user |-> user]

\* Line 229: the record cannot be handled.
MissingIdOrConfig(license_info) ==
    Falsy(license_info.user_principal) \/ Falsy(license_info.license_config)

\* The comparison with <= in place of <.
IsStaleInclusive(last_login_time, threshold) == last_login_time <= threshold

\* Line 258: the comparison that selects a stale login.
IsStale(last_login_time, threshold) == last_login_time < threshold

\* The loop body without the continue of line 242: in the -1 mode a record
\* with a last login falls through to the threshold comparison.
DecideFallThrough(license_info, days, threshold) ==
    IF Falsy(license_info.user_principal) \/ Falsy(license_info.license_config)
    THEN "skip_missing"
    ELSE IF NoLogin(license_info.last_login_time)
         THEN IF days = -1 THEN "revoke" ELSE "skip"
    ELSE LET p == parse_datetime(license_info.last_login_time)
         IN  IF ~p.ok THEN "skip_invalid"
             ELSE IF p.value < threshold THEN "revoke" ELSE "skip"

\* What one pass of the loop body (lines 225-267) decides for a record:
\* "skip_missing", "revoke", "skip", or "skip_invalid".
Decide(license_info, days, threshold) ==
    IF MissingIdOrConfig(license_info) THEN "skip_missing"
    ELSE IF days = -1
         THEN IF NoLogin(license_info.last_login_time) THEN "revoke" ELSE "skip"
    ELSE IF NoLogin(license_info.last_login_time) THEN "skip"
    ELSE LET p == parse_datetime(license_info.last_login_time)
         IN  IF ~p.ok THEN "skip_invalid"
             ELSE IF IsStale(p.value, threshold) THEN "revoke" ELSE "skip"

\* The append of the user placed before the revoke call instead of after it.
RevokeOutcomeAppendFirst(user_id, r) ==
    IF r.out.kind = "raise"
    THEN [revoked |-> <<user_id>>, errs |-> <<[kind |-> "revoke_failed", user |-> user_id]>>]
    ELSE [revoked |-> <<user_id>>, errs |-> <<>>]

\* Lines 237-241 and 263-267: the revoke under try/except.
RevokeOutcome(user_id, r) ==
    IF r.out.kind = "raise"
    THEN [revoked |-> <<>>, errs |-> <<ErrorEntry("revoke_failed", user_id)>>]
    ELSE [revoked |-> <<user_id>>, errs |-> <<>>]

RslStep ==
    /\ pc = "rsl_loop"
    /\ idx <= Len(all_licenses)
    /\ LET license_info == all_licenses[idx]
           user_id == license_info.user_principal
           d == Decide(license_info, stale_after_days, stale_threshold)
       IN  CASE d = "skip_missing" ->
                  /\ errors' = Append(errors, ErrorEntry("missing_id_or_config", user_id))
                  /\ UNCHANGED <<calls, revoked_users>>
             [] d = "skip_invalid" ->
                  /\ errors' = Append(errors, ErrorEntry("invalid_last_login_time", user_id))
                  /\ UNCHANGED <<calls, revoked_users>>
             [] d = "skip" ->
                  UNCHANGED <<calls, revoked_users, errors>>
             [] d = "revoke" ->
                  \E ok \in BOOLEAN :
                    LET r == revoke_license(user_id, license_info.license_config, ok, idx)
                        o == RevokeOutcome(user_id, r)
                    IN  /\ calls' = calls \o r.sent
                        /\ revoked_users' = revoked_users \o o.revoked
                        /\ errors' = errors \o o.errs
    /\ idx' = idx + 1
    /\ UNCHANGED <<pc, tool, result, args, now, stale_after_days, stale_threshold, all_licenses, lsVars>>

\* The summary with the test of line 269 looking at revoked_users only.
SummaryIgnoringErrors(revoked, errs) ==
    IF revoked = <<>>
    THEN [status |-> "No stale licenses found.", revoked_count |-> 0]
    ELSE [status |-> "Completed license reclamation.",
          revoked_count |-> Len(revoked),
          revoked_users |-> revoked,
          errors |-> errs]

\* Lines 269-277: the summary.
Summary(revoked, errs) ==
    IF revoked = <<>> /\ errs = <<>>
    THEN [status |-> "No stale licenses found.", revoked_count |-> 0]
    ELSE [status |-> "Completed license reclamation.",
          revoked_count |-> Len(revoked),
          revoked_users |-> revoked,
          errors |-> errs]

RslReturn ==
    /\ pc = "rsl_loop"
    /\ idx > Len(all_licenses)
    /\ result' = Return(Summary(revoked_users, errors))
    /\ pc' = "done"
    /\ UNCHANGED <<tool, calls, args, rslVars, lsVars>>

\* ---------------------------------------------------------------- list_subscriptions
\* _get_subscription_details: one GET of the named config; any failure is
\* logged and answered with None.
get_subscription_details(subscription_name, ok, body, rec) ==
    LET answer == IF ok THEN Details(subscription_name, body) ELSE NoDetails
    IN  [sent |-> <<Get_(subscription_name, ok, answer, rec)>>,
         none |-> ~ok,
         json |-> answer]

\* Lines 291-293: no session, no request.
LsCall ==
    /\ pc = "idle"
    /\ tool' = "list_subscriptions"
    /\ subscriptions_data' = <<>>
    /\ \E session \in BOOLEAN :
         IF session
         THEN /\ pc' = "ls_stats"
              /\ UNCHANGED result
         ELSE /\ pc' = "done"
              /\ result' = Return([error |-> "Unable to obtain default credential for API calls."])
    /\ UNCHANGED <<calls, args, rslVars, gets, usage_stats, sidx>>

\* Lines 335-342: the two handlers around the body.
RequestError(has_response) ==
    IF has_response
    THEN [error |-> "Error calling REST API", status_code |-> "status",
          response_content |-> "text"]
    ELSE [error |-> "Error calling REST API"]

UnexpectedError == [error |-> "An unexpected error occurred"]

\* Lines 303-309: the usage-stats request.
LsStats ==
    /\ pc = "ls_stats"
    /\ \E outcome \in {"ok", "http_error", "connection_error", "other_error"},
          has_key \in BOOLEAN, stats \in StatsLists :
         /\ gets' = Append(gets, Get_(UsageStatsUrl, outcome = "ok", NoDetails, 0))
         /\ CASE outcome = "http_error" ->
                   /\ result' = Return(RequestError(TRUE))
                   /\ pc' = "done"
                   /\ UNCHANGED usage_stats
              [] outcome = "connection_error" ->
                   /\ result' = Return(RequestError(FALSE))
                   /\ pc' = "done"
                   /\ UNCHANGED usage_stats
              [] outcome = "other_error" ->
                   /\ result' = Return(UnexpectedError)
                   /\ pc' = "done"
                   /\ UNCHANGED usage_stats
              [] outcome = "ok" ->
                   IF ~has_key \/ stats = <<>>
                   THEN /\ result' = Return([subscriptions |-> <<>>])
                        /\ pc' = "done"
                        /\ UNCHANGED usage_stats
                   ELSE /\ usage_stats' = stats
                        /\ pc' = "ls_loop"
                        /\ UNCHANGED result
    /\ sidx' = 1
    /\ UNCHANGED <<tool, calls, args, rslVars, subscriptions_data>>

\* The details fetched under the display name instead of the full name.
DetailsKeyDisplayName(stats) ==
    SplitSlash(stats.licenseConfig)[Len(SplitSlash(stats.licenseConfig))]

\* The name the details are fetched under (line 316).
DetailsKey(stats) == stats.licenseConfig

\* Lines 323-331: the joined entry; the int() calls can raise.
Entry(stats, subscription_details) ==
    LET full_name == stats.licenseConfig
        used == ParseInt(Get(stats.usedLicenseCount, "0"))
        total == ParseInt(Get(subscription_details.licenseCount, "-1"))
    IN  [ok |-> used.ok /\ total.ok,
         value |-> [display_name |-> SplitSlash(full_name)[Len(SplitSlash(full_name))],
                    config_path |-> full_name,
                    used_count |-> used.value,
                    total_count |-> total.value,
                    status |-> Get(subscription_details.state, "Unknown"),
                    start_date |-> Get(subscription_details.startDate, "N/A"),
                    end_date |-> Get(subscription_details.endDate, "N/A")]]

\* Lines 311-331: one pass of the loop body.
LsStep ==
    /\ pc = "ls_loop"
    /\ sidx <= Len(usage_stats)
    /\ LET stats == usage_stats[sidx]
           full_name == stats.licenseConfig
       IN  IF Falsy(full_name)
           THEN UNCHANGED <<gets, subscriptions_data, result, pc>>
           ELSE \E ok \in BOOLEAN, body \in ConfigBodies :
                  LET d == get_subscription_details(DetailsKey(stats), ok, body, sidx)
                      e == Entry(stats, d.json)
                  IN  /\ gets' = gets \o d.sent
                      /\ IF d.none
                         THEN UNCHANGED <<subscriptions_data, result, pc>>
                         ELSE IF e.ok
                         THEN /\ subscriptions_data' = Append(subscriptions_data, e.value)
                              /\ UNCHANGED <<result, pc>>
                         ELSE /\ result' = Return(UnexpectedError)
                              /\ pc' = "done"
                              /\ UNCHANGED subscriptions_data
    /\ sidx' = sidx + 1
    /\ UNCHANGED <<tool, calls, args, rslVars, usage_stats>>

\* Line 333.
LsReturn ==
    /\ pc = "ls_loop"
    /\ sidx > Len(usage_stats)
    /\ result' = Return([subscriptions |-> subscriptions_data])
    /\ pc' = "done"
    /\ UNCHANGED <<tool, calls, args, rslVars, lsVars>>


\* ---------------------------------------------------------------- properties
InRelease == tool = "release_stale_licenses"

\* The fetch of release_stale_licenses answered with a list.
Fetched ==
    /\ InRelease
    /\ pc \in {"rsl_loop", "done"}
    /\ Len(calls) >= 1
    /\ calls[1].ok

\* The records the for loop has gone past.
Processed == IF Fetched THEN 1..(idx - 1) ELSE {}

IsRevokeCall(c) ==
    c.op = "batch_update_user_licenses" /\ c.delete_unassigned_user_licenses

\* The revoke requests sent for the record at position i.
RevokeCalls(i) ==
    {k \in DOMAIN calls : IsRevokeCall(calls[k]) /\ calls[k].rec = i}

HasUserAndConfig(r) ==
    r.user_principal \notin {None, ""} /\ r.license_config \notin {None, ""}

HasLogin(r) == r.last_login_time.text \notin {None, ""}

IsTimestamp(r) == r.last_login_time.text = "timestamp"

Unparsable(r) == HasLogin(r) /\ ~IsTimestamp(r)

\* C1: with stale_after_days = -1, a record is revoked if and only if it has
\* a user principal, a license config and no last-login time; a record with
\* a last-login time is never revoked, whatever its age.
C1_NeverLoggedInOnly ==
    (InRelease /\ stale_after_days = -1) =>
        \A i \in Processed :
            LET r == all_licenses[i]
            IN  /\ (RevokeCalls(i) # {}) <=> (HasUserAndConfig(r) /\ ~HasLogin(r))
                /\ HasLogin(r) => RevokeCalls(i) = {}
                /\ \A k \in RevokeCalls(i) :
                     calls[k].user_principal = r.user_principal

C1_Witness ==
    /\ InRelease /\ pc = "done" /\ stale_after_days = -1
    /\ \E i, j \in Processed :
         /\ RevokeCalls(i) # {}
         /\ ~HasLogin(all_licenses[i])
         /\ HasUserAndConfig(all_licenses[j])
         /\ IsTimestamp(all_licenses[j])
         /\ all_licenses[j].last_login_time.day = 0
         /\ RevokeCalls(j) = {}

C5_NDaysOrMore ==
    (InRelease /\ stale_after_days > 0) =>
        \A i \in Processed :
            LET r == all_licenses[i]
            IN  (/\ HasUserAndConfig(r)
                 /\ IsTimestamp(r)
                 /\ r.last_login_time.day <= now - stale_after_days)
                => RevokeCalls(i) # {}

\* ---------------------------------------------------------------- list_subscriptions properties
InSubscriptions == tool = "list_subscriptions"

IsDetailsGet(g) == g.rec > 0

\* The GETs of config details sent for the usage-stats record at position i.
DetailsGets(i) == {k \in DOMAIN gets : IsDetailsGet(gets[k]) /\ gets[k].rec = i}

IsAnsweredDetailsGet(g) == IsDetailsGet(g) /\ g.ok

\* The detail fetches that succeeded, in the order they were made.
AnsweredGets == SelectSeq(gets, IsAnsweredDetailsGet)

\* The subscriptions list as it stands: the local list while the loop runs,
\* the returned list once the tool has returned one.
ListedSubscriptions ==
    IF pc = "done" THEN result.value.subscriptions ELSE subscriptions_data

\* C3: the subscriptions list holds, in usage-stats order, exactly one entry
\* for each usage-stats record with a non-empty licenseConfig whose detail
\* fetch succeeded; the entry's config_path is that record's licenseConfig,
\* its used_count is that record's, and its total_count, status and dates are
\* those of the details fetched under that same name; other records
\* contribute no entry.
C3_JoinByResourceName ==
    (/\ InSubscriptions
     /\ \/ pc = "ls_loop"
        \/ pc = "done" /\ "subscriptions" \in DOMAIN result.value) =>
        LET subs == ListedSubscriptions
            done == 1..(sidx - 1)
        IN  /\ Len(subs) = Len(AnsweredGets)
            /\ \A i \in done :
                 /\ Cardinality(DetailsGets(i)) =
                      (IF usage_stats[i].licenseConfig \in {None, ""} THEN 0 ELSE 1)
            /\ \A k \in DOMAIN gets : IsDetailsGet(gets[k]) => gets[k].rec \in done
            /\ pc = "done" => \A i \in DOMAIN usage_stats : i \in done
            /\ \A k \in 1..Len(subs) :
                 LET g == AnsweredGets[k]
                     stats == usage_stats[g.rec]
                     e == subs[k]
                 IN  /\ k > 1 => AnsweredGets[k - 1].rec < g.rec
                     /\ e.config_path = stats.licenseConfig
                     /\ g.url = stats.licenseConfig
                     /\ g.details.name = e.config_path
                     /\ e.used_count =
                          (IF stats.usedLicenseCount = None THEN 0
                           ELSE ParseInt(stats.usedLicenseCount).value)
                     /\ ParseInt(Get(stats.usedLicenseCount, "0")).ok
                     /\ e.total_count =
                          (IF g.details.licenseCount = None THEN -1
                           ELSE ParseInt(g.details.licenseCount).value)
                     /\ e.status =
                          (IF g.details.state = None THEN "Unknown" ELSE g.details.state)
                     /\ e.start_date =
                          (IF g.details.startDate = None THEN "N/A" ELSE g.details.startDate)
                     /\ e.end_date =
                          (IF g.details.endDate = None THEN "N/A" ELSE g.details.endDate)

C3_Witness ==
    /\ InSubscriptions /\ pc = "done"
    /\ "subscriptions" \in DOMAIN result.value
    /\ Len(usage_stats) = MaxStats
    /\ Len(result.value.subscriptions) = 1
    /\ \E i, j \in DOMAIN usage_stats :
         /\ i < j
         /\ usage_stats[i].licenseConfig = ConfigNameC2
         /\ DetailsGets(i) # {}
         /\ \A k \in DetailsGets(i) : ~gets[k].ok
         /\ usage_stats[j].licenseConfig = ConfigNameC1
         /\ usage_stats[j].usedLicenseCount = "2"
         /\ result.value.subscriptions[1].config_path = ConfigNameC1
         /\ result.value.subscriptions[1].used_count = 2
         /\ result.value.subscriptions[1].total_count = 7

\* ---------------------------------------------------------------- error handling properties
\* Some outbound call of the invocation failed.
SomeCallFailed ==
    \/ \E k \in DOMAIN calls : ~calls[k].ok
    \/ \E k \in DOMAIN gets : ~gets[k].ok

\* C4 as stated: whichever the tool, a failed outbound call ends in a
\* returned {"error": message} dictionary and never in an exception.
C4_EveryFailureReturnedAsErrorDict ==
    (pc = "done" /\ SomeCallFailed) => IsErrorDict(result)

\* C4 as amended: release_stale_licenses and list_subscriptions never end by
\* raising; a failed license-list fetch, a failed usage-stats request and a
\* missing credential are returned as {"error": message}; a failed revoke
\* inside release_stale_licenses is reported in the errors list of the
\* summary; a failed detail fetch leaves the subscriptions result without
\* that entry; list_licenses, grant_license and revoke_license called
\* directly let the exception of a failed call propagate.
C4_FailuresByTool ==
    pc = "done" =>
        /\ tool \in {"release_stale_licenses", "list_subscriptions"}
              => result.kind = "return"
        /\ (InRelease /\ ~calls[1].ok) => IsErrorDict(result)
        /\ (InRelease /\ calls[1].ok) =>
              \A k \in DOMAIN calls :
                  (IsRevokeCall(calls[k]) /\ ~calls[k].ok) =>
                      /\ "errors" \in DOMAIN result.value
                      /\ \E n \in DOMAIN result.value.errors :
                           /\ result.value.errors[n].kind = "revoke_failed"
                           /\ result.value.errors[n].user = calls[k].user_principal
        /\ (InSubscriptions /\ gets = <<>>) => IsErrorDict(result)
        /\ (InSubscriptions /\ gets # <<>>) =>
              IF ~gets[1].ok THEN IsErrorDict(result)
              ELSE \A k \in DOMAIN gets :
                     (IsDetailsGet(gets[k]) /\ ~gets[k].ok /\ ~IsErrorDict(result)) =>
                         Len(result.value.subscriptions) < Len(usage_stats)
        /\ (tool \in {"list_licenses", "grant_license", "revoke_license"}
            /\ SomeCallFailed) => result.kind = "raise"

C4_Witness ==
    /\ pc = "done" /\ InRelease
    /\ ~calls[1].ok
    /\ IsErrorDict(result)

\* C6: grant_license and revoke_license called with a missing or empty
\* license_config_path return an {"error": ...} dictionary and send no batch
\* update to the license service.
C6_NoConfigNoBatchUpdate ==
    (/\ pc = "done"
     /\ tool \in {"grant_license", "revoke_license"}
     /\ args.license_config_path \in {None, ""}) =>
        /\ IsErrorDict(result)
        /\ calls = <<>>

C6_Witness ==
    /\ pc = "done" /\ tool = "revoke_license"
    /\ args.license_config_path = ""
    /\ args.user_id = "alice"
    /\ IsErrorDict(result)

\* ---------------------------------------------------------------- the reclamation pass
\* C7: one invocation of release_stale_licenses fetches the license list
\* exactly once, before any revoke, then passes over it once in list order:
\* at most one revoke request per record, none repeated after a failure, and
\* after a failed fetch an error dictionary and no revoke at all.
C7_FetchOnceSinglePass ==
    InRelease =>
        /\ pc = "rsl_fetch" => calls = <<>>
        /\ pc \in {"rsl_loop", "done"} =>
             /\ Len(calls) >= 1
             /\ calls[1].op = "list_user_licenses"
             /\ \A k \in 2..Len(calls) :
                  /\ IsRevokeCall(calls[k])
                  /\ calls[k].rec \in 1..(idx - 1)
                  /\ calls[k].rec <= Len(all_licenses)
                  /\ calls[k].user_principal = all_licenses[calls[k].rec].user_principal
                  /\ k > 2 => calls[k - 1].rec < calls[k].rec
             /\ \A i \in 1..Len(all_licenses) : Cardinality(RevokeCalls(i)) <= 1
             /\ ~calls[1].ok =>
                  /\ Len(calls) = 1
                  /\ pc = "done"
                  /\ IsErrorDict(result)
             /\ (pc = "done" /\ calls[1].ok) => idx = Len(all_licenses) + 1

C7_Witness ==
    /\ InRelease /\ pc = "done"
    /\ Len(calls) = 3
    /\ ~calls[2].ok
    /\ calls[2].rec = 1
    /\ calls[3].rec = 2
    /\ ~calls[3].ok
    /\ revoked_users = <<>>

\* The record at position i is one the mode selects for revocation.
Selected(i) ==
    LET r == all_licenses[i]
    IN  /\ HasUserAndConfig(r)
        /\ IF stale_after_days = -1 THEN ~HasLogin(r)
           ELSE IsTimestamp(r) /\ r.last_login_time.day < now - stale_after_days

HasErrorEntry(kinds, user) ==
    \E n \in DOMAIN errors : errors[n].kind \in kinds /\ errors[n].user = user

\* A revoke for this user returned without raising.
RevokedOnce(user) ==
    \E k \in DOMAIN calls :
        IsRevokeCall(calls[k]) /\ calls[k].ok /\ calls[k].user_principal = user

InRevokedUsers(user) == \E n \in DOMAIN revoked_users : revoked_users[n] = user

\* What C8 says of a failed revoke and of the records after it.
FailedRevokeDoesNotAbort ==
    /\ \A i \in Processed :
         LET r == all_licenses[i]
         IN  (\E k \in RevokeCalls(i) : ~calls[k].ok) =>
               /\ HasErrorEntry({"revoke_failed"}, r.user_principal)
               /\ ~RevokedOnce(r.user_principal) => ~InRevokedUsers(r.user_principal)
    /\ (Fetched /\ pc = "done") =>
         \A j \in 1..Len(all_licenses) :
             /\ j \in Processed
             /\ Selected(j) => RevokeCalls(j) # {}

\* What C8 says of a record without a user principal or a license config.
MissingIsSkippedWithEntry ==
    \A i \in Processed :
        LET r == all_licenses[i]
        IN  ~HasUserAndConfig(r) =>
              /\ RevokeCalls(i) = {}
              /\ HasErrorEntry({"missing_id_or_config"}, r.user_principal)

\* C8 as stated: a revoke that raises does not abort the pass (the user gets
\* an errors entry and is absent from revoked_users, later records are still
\* examined and revoked if they match), and a record with a missing user
\* principal or license config, or an unparsable last-login time, is skipped
\* with an errors entry and never revoked.
C8_FailuresSkippedWithEntry ==
    InRelease =>
        /\ FailedRevokeDoesNotAbort
        /\ MissingIsSkippedWithEntry
        /\ \A i \in Processed :
             LET r == all_licenses[i]
             IN  Unparsable(r) =>
                   /\ RevokeCalls(i) = {}
                   /\ HasErrorEntry({"missing_id_or_config", "invalid_last_login_time"},
                                    r.user_principal)

\* C8 as amended: the same, except that an unparsable last-login time gets
\* its errors entry only when stale_after_days is not -1; with -1 the record
\* is skipped without being parsed, and in both modes it is never revoked.
C8_UnparsableReportedOutsideNeverMode ==
    InRelease =>
        /\ FailedRevokeDoesNotAbort
        /\ MissingIsSkippedWithEntry
        /\ \A i \in Processed :
             LET r == all_licenses[i]
             IN  Unparsable(r) =>
                   /\ RevokeCalls(i) = {}
                   /\ (stale_after_days # -1 /\ HasUserAndConfig(r)) =>
                        HasErrorEntry({"invalid_last_login_time"}, r.user_principal)

C8_Witness ==
    /\ InRelease /\ pc = "done" /\ stale_after_days > 0
    /\ Len(all_licenses) = 2
    /\ Len(calls) = 3
    /\ ~calls[2].ok
    /\ calls[3].ok
    /\ calls[2].user_principal = "alice"
    /\ calls[3].user_principal = "bob"
    /\ revoked_users = <<"bob">>
    /\ HasErrorEntry({"revoke_failed"}, "alice")

IsAnsweredRevoke(c) == IsRevokeCall(c) /\ c.ok

\* The users whose revoke returned without raising, in the order of the calls.
UsersRevoked ==
    LET okCalls == SelectSeq(calls, IsAnsweredRevoke)
    IN  [k \in 1..Len(okCalls) |-> okCalls[k].user_principal]

\* C9: the summary agrees with the calls made: revoked_users is the sequence
\* of users, in list order, whose revoke returned without raising,
\* revoked_count is its length, and the "No stale licenses found." result is
\* returned if and only if no revoke succeeded and no error was recorded.
C9_SummaryMatchesCalls ==
    (Fetched /\ pc = "done") =>
        LET v == result.value
            noStale == v.status = "No stale licenses found."
        IN  /\ result.kind = "return"
            /\ noStale <=> (UsersRevoked = <<>> /\ errors = <<>>)
            /\ noStale => (v.revoked_count = 0 /\ DOMAIN v = {"status", "revoked_count"})
            /\ ~noStale =>
                 /\ v.status = "Completed license reclamation."
                 /\ v.revoked_users = UsersRevoked
                 /\ v.revoked_count = Len(v.revoked_users)
                 /\ v.errors = errors

C9_Witness ==
    /\ Fetched /\ pc = "done"
    /\ result.value.status = "Completed license reclamation."
    /\ result.value.revoked_count = 0
    /\ result.value.revoked_users = <<>>
    /\ Len(result.value.errors) = 2

Next ==
    \/ ListLicenses
    \/ GrantLicense
    \/ RevokeLicense
    \/ RslCall
    \/ RslFetch
    \/ RslStep
    \/ RslReturn
    \/ LsCall
    \/ LsStats
    \/ LsStep
    \/ LsReturn

Spec == Init /\ [][Next]_vars

====
